---- MODULE Spec2Model ----
(***************************************************************************)
(* A model of app.py: a Flask application with one route, "/", whose view  *)
(* function renders the template "index.html", and a main guard that       *)
(* starts the development server with debug=True on port 5000.             *)
(*                                                                         *)
(* The module body of app.py is executed statement by statement (pc). Once *)
(* the application is being served, a request is accepted in one step and  *)
(* handled in a later one, so that several requests are in flight at once  *)
(* (the development server handles each request in its own thread).        *)
(*                                                                         *)
(* The requests are those the server passes to the application object; the *)
(* templates folder and the static folder are fixed while the process      *)
(* runs.                                                                   *)
(***************************************************************************)
EXTENDS Naturals, Sequences, FiniteSets, Bags, TLC

VARIABLES
    name,             \* __name__ of the module: "__main__" when run as a script
    pc,               \* index of the next statement of Script to execute
    app,              \* whether the Flask object of line 3 has been constructed
    url_map,          \* app.url_map: the set of registered rules
    view_functions,   \* app.view_functions: the endpoints that have a view
    debug,            \* app.debug
    listeners,        \* the HTTP listeners started by app.run
    templates,        \* the files of the templates folder
    static_files,     \* the names of the files of the static folder
    nreq,             \* the number of requests accepted so far
    inflight,         \* the bag of requests accepted and not yet answered
    peak,             \* the largest number of requests in flight at once so far
    log               \* the exchanges observed: a request and its response

vars == <<name, pc, app, url_map, view_functions, debug, listeners, templates,
          static_files, nreq, inflight, peak, log>>

----------------------------------------------------------------------------
(* Bounds of the model. *)

\* The number of requests the server accepts in one behaviour.
MaxRequests == 2

----------------------------------------------------------------------------
(* The environment: the requests passed to the application, the templates  *)
(* folder and the static folder.                                           *)

\* The file names a request for a static file may name.
FileNames == {"app.js"}

\* The URL under which the application serves a file of its static folder.
StaticUrl(filename) == "/static/" \o filename

Methods == {"GET", "HEAD", "OPTIONS", "POST"}
Paths == {"/", "/missing"} \cup {StaticUrl(f) : f \in FileNames}
Queries == {"", "name=q"}
Headers == {"", "X-Name: h"}
Bodies == {"", "name=b"}

\* A request carries no query string, no extra header and no body, or all
\* three.
Requests ==
    {r \in [method : Methods, path : Paths, query : Queries,
            headers : Headers, body : Bodies] :
        (r.query = "") = (r.headers = "") /\ (r.headers = "") = (r.body = "")}

Lit(s) == [kind |-> "lit", val |-> s]
Var(v) == [kind |-> "var", val |-> v]

\* The sources the file templates/index.html may hold: a page with a
\* placeholder for the variable "name", and a page that does not parse.
TemplateSources ==
    { [valid |-> TRUE,  tokens |-> <<Lit("<h1>RPS "), Var("name"), Lit("</h1>")>>],
      [valid |-> FALSE, tokens |-> <<Lit("{% if %}")>>] }

\* The templates folder either holds a file index.html or is empty.
TemplateFolders ==
    {{}} \cup {{[file |-> "index.html", valid |-> s.valid, tokens |-> s.tokens]} :
                 s \in TemplateSources}

----------------------------------------------------------------------------
(* The statements of app.py. *)

\* Mutant: app.run is called before the route is declared.
Script_run_first == <<"Flask", "main", "route">>

\* The module body: line 3, lines 5-7, lines 9-12, in this order.
Script == <<"Flask", "route", "main">>

\* Mutant: the decorator names another path.
RouteDecl_other_path == [rule |-> "/missing", endpoint |-> "index", methods |-> {}]

\* Mutant: the decorator passes methods=['GET', 'POST'].
RouteDecl_post == [rule |-> "/", endpoint |-> "index", methods |-> {"GET", "POST"}]

\* The decorator of line 5: the rule "/", no methods argument; the endpoint
\* is the name of the decorated function (line 6).
RouteDecl == [rule |-> "/", endpoint |-> "index", methods |-> {}]

Port == 5000

\* The keyword arguments of app.run in line 12.
RunArgs == [debug |-> TRUE, port |-> Port]

\* Mutant: line 7 misspells the template's name.
TemplateName_typo == "index.htm"

\* The template line 7 names, and the variables it passes: none.
TemplateName == "index.html"
EmptyContext == {}

----------------------------------------------------------------------------
(* Template rendering, as render_template does it for line 7. *)

\* The value a context binds to a variable; an unbound variable renders as
\* the empty string.
Lookup(context, v) ==
    IF \E b \in context : b.var = v
    THEN (CHOOSE b \in context : b.var = v).val
    ELSE ""

Render(source, context) ==
    [i \in 1..Len(source.tokens) |->
        IF source.tokens[i].kind = "lit"
        THEN source.tokens[i].val
        ELSE Lookup(context, source.tokens[i].val)]

\* render_template(template_name, **context): the rendered text, or the
\* exception raised when the template is not found or does not parse.
render_template(template_name, context) ==
    IF ~ \E t \in templates : t.file = template_name
    THEN [raised |-> "TemplateNotFound", text |-> << >>]
    ELSE LET t == CHOOSE t \in templates : t.file = template_name
         IN  IF ~ t.valid
             THEN [raised |-> "TemplateSyntaxError", text |-> << >>]
             ELSE [raised |-> "", text |-> Render(t, context)]

\* Mutant: the view passes a template variable.
index_passes_variable(request) ==
    render_template(TemplateName, {[var |-> "name", val |-> "player"]})

\* Mutant: the view passes a query parameter on to the template.
index_reads_query(request) ==
    render_template(TemplateName, {[var |-> "name", val |-> request.query]})

\* Mutant: the view passes a module-level visit counter to the template.
index_counts_visits(request) ==
    render_template(TemplateName, {[var |-> "name", val |-> ToString(nreq)]})

\* Mutant: the view passes the number of requests being handled at the moment.
index_counts_active(request) ==
    render_template(TemplateName,
                    {[var |-> "name", val |-> ToString(BagCardinality(inflight))]})

\* Mutant: the view catches the template error and returns a substitute page.
index_catches(request) ==
    LET rv == render_template(TemplateName, EmptyContext)
    IN  IF rv.raised # "" THEN [raised |-> "", text |-> <<"Page unavailable">>]
        ELSE rv

\* The view function of lines 6-7; request is the request being handled,
\* which the function does not read.
index(request) == render_template(TemplateName, EmptyContext)

----------------------------------------------------------------------------
(* What the framework does with the calls of lines 3, 5 and 12. *)

\* Flask.run binds this host when the call names none.
DefaultHost == "127.0.0.1"

\* Flask(__name__) registers the rule that serves the static folder.
StaticRule ==
    [rule |-> "/static/<path:filename>", endpoint |-> "static",
     methods |-> {"GET", "HEAD", "OPTIONS"}, provide_automatic_options |-> TRUE]

\* Flask.add_url_rule: without a methods argument the rule accepts GET; HEAD
\* is added to a rule that accepts GET, and OPTIONS is answered automatically.
AddedRule(decl) ==
    LET given == IF decl.methods = {} THEN {"GET"} ELSE decl.methods
        head  == IF "GET" \in given THEN {"HEAD"} ELSE {}
    IN  [rule |-> decl.rule, endpoint |-> decl.endpoint,
         methods |-> given \cup head \cup {"OPTIONS"},
         provide_automatic_options |-> "OPTIONS" \notin given]

\* The listener app.run(**RunArgs) starts.
Listener(args) ==
    [host  |-> IF "host" \in DOMAIN args THEN args.host ELSE DefaultHost,
     port  |-> args.port,
     debug |-> args.debug]

\* A rule matches the path equal to it; the static rule matches the URL of
\* any file name.
RuleMatches(rule, path) ==
    \/ rule = path
    \/ rule = StaticRule.rule /\ \E f \in FileNames : path = StaticUrl(f)

\* URL matching: the endpoint of the rule that matches path and method, or
\* the routing exception.
Match(map, request) ==
    LET byPath   == {r \in map : RuleMatches(r.rule, request.path)}
        byMethod == {r \in byPath : request.method \in r.methods}
    IN  IF byPath = {} THEN [endpoint |-> "", error |-> 404, automatic |-> FALSE]
        ELSE IF byMethod = {} THEN [endpoint |-> "", error |-> 405, automatic |-> FALSE]
        ELSE LET r == CHOOSE r \in byMethod : TRUE
             IN  [endpoint |-> r.endpoint, error |-> 0,
                  automatic |-> r.provide_automatic_options
                                /\ request.method = "OPTIONS"]

NotFoundPage == <<"404 Not Found">>
MethodNotAllowedPage == <<"405 Method Not Allowed">>
InternalServerErrorPage == <<"500 Internal Server Error">>
DebuggerPage(exception) == <<"Traceback (most recent call last)", exception>>

StaticFileContent(filename) == <<"content of static/", filename>>

\* Flask.send_static_file: the file of the static folder the path names, or
\* NotFound.
send_static_file(request) ==
    LET filename == CHOOSE f \in FileNames : request.path = StaticUrl(f)
    IN  IF filename \in static_files
        THEN [raised |-> "", text |-> StaticFileContent(filename)]
        ELSE [raised |-> "NotFound", text |-> << >>]

\* The view function registered for an endpoint: the one Flask registers for
\* the static folder, and index.
View(endpoint, request) ==
    IF endpoint = StaticRule.endpoint THEN send_static_file(request)
    ELSE index(request)

\* The response to an exception that is not an HTTP error: status 500, with
\* the debugger's page when the application runs in debug mode.
ErrorResponse(endpoint, exception) ==
    [status |-> 500,
     body |-> IF debug THEN DebuggerPage(exception) ELSE InternalServerErrorPage,
     view |-> endpoint, raised |-> exception]

\* Flask.full_dispatch_request: the routing exception becomes its error
\* response, an automatic OPTIONS is answered without the view, and otherwise
\* the view runs; NotFound raised by the view becomes the 404 response, and
\* any other exception the 500 response.
Dispatch(request) ==
    LET m == Match(url_map, request)
    IN  IF m.error = 404
        THEN [status |-> 404, body |-> NotFoundPage, view |-> "", raised |-> ""]
        ELSE IF m.error = 405
        THEN [status |-> 405, body |-> MethodNotAllowedPage, view |-> "", raised |-> ""]
        ELSE IF m.automatic
        THEN [status |-> 200, body |-> << >>, view |-> "", raised |-> ""]
        ELSE IF m.endpoint \notin view_functions
        THEN ErrorResponse("", "KeyError")
        ELSE LET rv == View(m.endpoint, request)
             IN  IF rv.raised = "NotFound"
                 THEN [status |-> 404, body |-> NotFoundPage,
                       view |-> m.endpoint, raised |-> ""]
                 ELSE IF rv.raised # ""
                 THEN ErrorResponse(m.endpoint, rv.raised)
                 ELSE [status |-> 200, body |-> rv.text,
                       view |-> m.endpoint, raised |-> ""]

\* The response as sent: a HEAD request is answered without a body.
Finalize(request, rv) ==
    [status |-> rv.status,
     body   |-> IF request.method = "HEAD" THEN << >> ELSE rv.body,
     view   |-> rv.view,
     raised |-> rv.raised]

\* The response a request receives when it is handled in one step.
Serve(request) == Finalize(request, Dispatch(request))

----------------------------------------------------------------------------
(* The state machine. *)

Main == name = "__main__"

\* The application is being served: by the listener of app.run, or, when the
\* module was imported, by the program that imported it.
Serving ==
    \/ listeners # {}
    \/ ~ Main /\ pc > Len(Script)

Init ==
    /\ name \in {"__main__", "app"}
    /\ pc = 1
    /\ app = FALSE
    /\ url_map = {}
    /\ view_functions = {}
    /\ debug = FALSE
    /\ listeners = {}
    /\ templates \in TemplateFolders
    /\ static_files \in SUBSET FileNames
    /\ nreq = 0
    /\ inflight = EmptyBag
    /\ peak = 0
    /\ log = {}

\* Line 3: app = Flask(__name__).
CreateApp ==
    /\ pc <= Len(Script) /\ Script[pc] = "Flask"
    /\ app' = TRUE
    /\ url_map' = {StaticRule}
    /\ view_functions' = {StaticRule.endpoint}
    /\ pc' = pc + 1
    /\ UNCHANGED <<name, debug, listeners, templates, static_files,
                   nreq, inflight, peak, log>>

\* Lines 5-7: @app.route('/') def index().
RegisterRoute ==
    /\ pc <= Len(Script) /\ Script[pc] = "route"
    /\ app
    /\ url_map' = url_map \cup {AddedRule(RouteDecl)}
    /\ view_functions' = view_functions \cup {RouteDecl.endpoint}
    /\ pc' = pc + 1
    /\ UNCHANGED <<name, app, debug, listeners, templates, static_files,
                   nreq, inflight, peak, log>>

\* Lines 9-12 when the module is the main program: app.run(debug=True,
\* port=5000) starts the listener and does not return, so pc stays at the
\* call and the call is made once.
RunMain ==
    /\ pc <= Len(Script) /\ Script[pc] = "main"
    /\ Main /\ app
    /\ listeners = {}
    /\ debug' = RunArgs.debug
    /\ listeners' = {Listener(RunArgs)}
    /\ UNCHANGED <<name, pc, app, url_map, view_functions, templates,
                   static_files, nreq, inflight, peak, log>>

\* Line 9 when the module is imported: the guard is false.
SkipMain ==
    /\ pc <= Len(Script) /\ Script[pc] = "main"
    /\ ~ Main
    /\ pc' = pc + 1
    /\ UNCHANGED <<name, app, url_map, view_functions, debug, listeners,
                   templates, static_files, nreq, inflight, peak, log>>

\* A request arrives and waits for the thread that handles it.
Accept(request) ==
    /\ Serving
    /\ nreq < MaxRequests
    /\ nreq' = nreq + 1
    /\ inflight' = inflight (+) SetToBag({request})
    /\ peak' = IF BagCardinality(inflight) + 1 > peak
               THEN BagCardinality(inflight) + 1 ELSE peak
    /\ UNCHANGED <<name, pc, app, url_map, view_functions, debug, listeners,
                   templates, static_files, log>>

\* A request in flight is routed, its view function runs and the response
\* is sent.
Handle(request) ==
    /\ BagIn(request, inflight)
    /\ inflight' = inflight (-) SetToBag({request})
    /\ log' = log \cup {[req |-> request, resp |-> Serve(request)]}
    /\ UNCHANGED <<name, pc, app, url_map, view_functions, debug, listeners,
                   templates, static_files, nreq, peak>>

Next ==
    \/ CreateApp
    \/ RegisterRoute
    \/ RunMain
    \/ SkipMain
    \/ \E request \in Requests : Accept(request)
    \/ \E request \in BagToSet(inflight) : Handle(request)

Spec == Init /\ [][Next]_vars

\* The module body runs to its end or to the listener.
Startup == CreateApp \/ RegisterRoute \/ RunMain \/ SkipMain

\* The interpreter executes the statements of the module body one after the
\* other: a statement that can run does run.
FairSpec == Spec /\ WF_vars(Startup)

----------------------------------------------------------------------------
(* The properties. *)

IsGetRoot(request) == request.method = "GET" /\ request.path = "/"

\* The template index.html exists and renders.
TemplateRenders == \E t \in templates : t.file = "index.html" /\ t.valid

\* The route "/" to the view index is registered.
RouteRegistered ==
    /\ \E r \in url_map : r.rule = "/" /\ r.endpoint = "index"
    /\ "index" \in view_functions

\* C1: every GET request whose path is exactly "/" is answered with status
\* 200, provided the template index.html exists and renders.
C1_GetRootIs200 ==
    \A e \in log :
        IsGetRoot(e.req) /\ TemplateRenders => e.resp.status = 200

C1_Witness ==
    \E e \in log : IsGetRoot(e.req) /\ TemplateRenders /\ e.resp.status = 200

\* C2: the body of the response to GET "/" is the template index.html
\* rendered with no variable bound, unaltered, and it is the view index that
\* produced it.
C2_BodyIsRenderedTemplate ==
    \A e \in log :
        IsGetRoot(e.req) /\ e.resp.status = 200 =>
            /\ e.resp.view = "index"
            /\ \E t \in templates :
                  /\ t.file = "index.html" /\ t.valid
                  /\ e.resp.body = Render(t, {})

C2_Witness ==
    \E e \in log :
        /\ IsGetRoot(e.req) /\ e.resp.status = 200
        /\ e.resp.body = <<"<h1>RPS ", "", "</h1>">>

IsStaticUrl(path) == \E f \in FileNames : path = StaticUrl(f)

C5_RepeatedGetIsIdentical ==
    \A e, f \in log :
        IsGetRoot(e.req) /\ e.req = f.req => e.resp = f.resp

\* Two requests were accepted and answered one after the other, and one
\* exchange was observed: the second request repeated the first and received
\* the same response.
C5_Witness ==
    /\ nreq = 2 /\ inflight = EmptyBag
    /\ peak = 1
    /\ \E e \in log : log = {e} /\ IsGetRoot(e.req) /\ e.resp.status = 200

\* C6: when the template index.html is missing or does not render, the
\* exception leaves the view index and GET "/" is answered with the default
\* error response, status 500, never with status 200 or a substitute body;
\* the application is still being served and accepts the next request.
C6_TemplateErrorIs500 ==
    (\E e \in log : IsGetRoot(e.req) /\ ~ TemplateRenders) =>
        /\ \A e \in log :
              IsGetRoot(e.req) =>
                  /\ e.resp.status = 500
                  /\ e.resp.view = "index"
                  /\ e.resp.raised \in {"TemplateNotFound", "TemplateSyntaxError"}
                  /\ e.resp.body \in {InternalServerErrorPage,
                                      DebuggerPage(e.resp.raised)}
        /\ Serving
        /\ nreq < MaxRequests => ENABLED (\E request \in Requests : Accept(request))

\* A GET "/" failed with status 500 because the template is missing, and
\* another request was answered as well.
C6_Witness ==
    /\ ~ TemplateRenders
    /\ \E e \in log : IsGetRoot(e.req) /\ e.resp.status = 500
                      /\ e.resp.raised = "TemplateNotFound"
    /\ \E e \in log : e.req.path = "/missing" /\ e.resp.status = 404

\* What holds of the listener in every state.
C7_Safety ==
    /\ Cardinality(listeners) <= 1
    /\ listeners # {} =>
          /\ Main
          /\ RouteRegistered
          /\ debug
          /\ \A l \in listeners : l.port = 5000 /\ l.debug
    /\ nreq > 0 => RouteRegistered

\* C7: run as the main program, the script starts exactly one listener, on
\* port 5000 with debug mode on, after the route "/" has been registered;
\* startup reaches the listening state, and no request is served before the
\* route exists.
C7_StartupReachesListening ==
    /\ [] C7_Safety
    /\ (Main /\ pc = 1) ~> (listeners # {})

\* The listener is up although the template is missing, and serves requests.
C7_Witness ==
    /\ Main /\ listeners # {} /\ templates = {}
    /\ \E e \in log : IsGetRoot(e.req)

\* C8: the listener started by the main program is bound to 0.0.0.0.
C8_ListensOnAllInterfaces ==
    \A l \in listeners : l.host = "0.0.0.0"

\* Serving changes neither the rules, nor the views, nor the configuration.
C9_HandlingKeepsAppState ==
    Serving => UNCHANGED <<url_map, view_functions, debug, listeners, app>>

\* C9: handling a request changes no application state, and every request,
\* however its handling interleaves with that of other requests, receives
\* the response it would receive if it were the only request.
C9_RequestsAreIndependent ==
    /\ [] (\A e \in log : e.resp = Serve(e.req))
    /\ [][C9_HandlingKeepsAppState]_vars

\* Two requests were in flight together and both were answered.
C9_Witness ==
    /\ peak = 2 /\ nreq = 2 /\ inflight = EmptyBag
    /\ \E e \in log : IsGetRoot(e.req) /\ e.resp.status = 200
    /\ \E e \in log : e.req.method = "HEAD" /\ e.req.path = "/"

\* C10: the rule "/" accepts GET, HEAD and OPTIONS only; a request to "/" with
\* another method is answered with status 405, not 200 or 404, and without
\* the view index being invoked.
C10_OtherMethodsAre405 ==
    /\ \A r \in url_map : r.rule = "/" => r.methods = {"GET", "HEAD", "OPTIONS"}
    /\ \A e \in log :
          e.req.path = "/" /\ e.req.method \notin {"GET", "HEAD", "OPTIONS"} =>
              /\ e.resp.status = 405
              /\ e.resp.view = ""
              /\ e.resp.body = MethodNotAllowedPage

\* A POST to "/" was answered 405 while HEAD "/" was answered by the view.
C10_Witness ==
    /\ \E e \in log : e.req.path = "/" /\ e.req.method = "POST"
                      /\ e.resp.status = 405
    /\ \E e \in log : e.req.path = "/" /\ e.req.method = "HEAD"
                      /\ e.resp.view = "index"

====
